---- MODULE Spec2Model ----
(***************************************************************************)
(* Electric field visualisation: the field evaluator get_electric_field    *)
(* (both lineage variants), the grid sampling loop and the charge markers  *)
(* of create_plot / plot_electric_field, and the Streamlit host script of   *)
(* secondTry.py (session charge list, Add Charge, removal, rerun).          *)
(*                                                                         *)
(* Arithmetic is exact.  A coordinate or a charge is a rational <<n, d>>   *)
(* in lowest terms; a field component is a finite sum of rational          *)
(* multiples of square roots of squarefree integers, kept as a function    *)
(* from the squarefree radicand to its non-zero coefficient.  That form is *)
(* canonical, so equality of two values of the model is equality of the    *)
(* real numbers.  Floating-point rounding and overflow are not modelled.   *)
(***************************************************************************)
EXTENDS Integers, Sequences, FiniteSets, TLC

\* ------------------------------------------------------------- rationals

Abs(n) == IF n < 0 THEN -n ELSE n

RECURSIVE GCD(_, _)
GCD(a, b) == IF b = 0 THEN a ELSE GCD(b, a % b)

\* n/d in lowest terms with a positive denominator (d # 0)
Rat(n, d) ==
    LET g == GCD(Abs(n), Abs(d))
        s == IF d < 0 THEN -1 ELSE 1
    IN  <<(s * n) \div g, (s * d) \div g>>

Zero == Rat(0, 1)
RInt(n) == Rat(n, 1)
RAdd(p, q) == Rat(p[1] * q[2] + q[1] * p[2], p[2] * q[2])
RSub(p, q) == Rat(p[1] * q[2] - q[1] * p[2], p[2] * q[2])
RMul(p, q) == Rat(p[1] * q[1], p[2] * q[2])
\* p / q for q # 0
RDiv(p, q) == Rat(p[1] * q[2], p[2] * q[1])
RLt(p, q) == p[1] * q[2] < q[1] * p[2]
RLe(p, q) == p[1] * q[2] <= q[1] * p[2]
RAbs(p) == <<Abs(p[1]), p[2]>>
RMax(p, q) == IF RLt(p, q) THEN q ELSE p
RMin(p, q) == IF RLt(q, p) THEN q ELSE p

RECURSIVE Pow10(_)
Pow10(k) == IF k = 0 THEN 1 ELSE 10 * Pow10(k - 1)

\* ----------------------------------------------- square roots and sums

\* the largest m with m*m dividing n (n >= 1), searched upward from m
RECURSIVE SquarePartFrom(_, _, _)
SquarePartFrom(n, m, best) ==
    IF m * m > n THEN best
    ELSE SquarePartFrom(n, m + 1, IF n % (m * m) = 0 THEN m ELSE best)

SquarePart(n) == SquarePartFrom(n, 1, 1)

\* np.sqrt of a positive rational: the surd [c |-> coefficient, s |-> radicand],
\* meaning c * sqrt(s) with s squarefree
Sqrt(p) ==
    LET ma == SquarePart(p[1])
        mb == SquarePart(p[2])
        sa == p[1] \div (ma * ma)
        sb == p[2] \div (mb * mb)
    IN  [c |-> Rat(ma, mb * sb), s |-> sa * sb]

\* rational / surd, the surd non-zero:  p / (c sqrt s) = (p / (c s)) sqrt s
RDivSurd(p, r) == [c |-> RDiv(p, RMul(r.c, RInt(r.s))), s |-> r.s]
\* rational * surd
RMulSurd(p, r) == [c |-> RMul(p, r.c), s |-> r.s]

\* the real number 0 and the real number of a rational
RealZero == [s \in {} |-> Zero]
RealOf(p) == IF p = Zero THEN RealZero ELSE [s \in {1} |-> p]

Coef(v, s) == IF s \in DOMAIN v THEN v[s] ELSE Zero

RealAdd(v, w) ==
    LET D == DOMAIN v \cup DOMAIN w
        K == {s \in D : RAdd(Coef(v, s), Coef(w, s)) # Zero}
    IN  [s \in K |-> RAdd(Coef(v, s), Coef(w, s))]

\* value += surd
AddSurd(v, r) == IF r.c = Zero THEN v ELSE RealAdd(v, [s \in {r.s} |-> r.c])

\* ---------------------------------------------------------------- state

VARIABLES
    unit,         \* lengths are given in units of 10^(-unit); a field value
                  \* of the model is in units of 10^(2*unit)
    arg_charges,  \* get_electric_field call: the charges argument
    arg_x,        \* ... the query point
    arg_y,
    ret,          \* ... what the last call returned, and which variant ran
    fn,           \* the renderer running: create_plot or plot_electric_field
    charges,      \* its parameters
    x_range,
    y_range,
    grid_density,
    X, Y,         \* its locals: the mesh, the two field arrays, loop indices
    Ex, Ey,
    i, j,
    markers,      \* the charge markers handed to the plotting backend
    writes,       \* per node, how many times the loop has stored into it
    pc,           \* where the renderer, or the host script, is
    in_session,   \* host: 'charges' in st.session_state
    plot_range,   \* host: the Plot Range slider
    button,       \* host: "Add Charge" was clicked for this script run
    inputs,       \* host: the three number inputs, <<q, qx, qy>>
    marks,        \* host: the rows (from 0) ticked in the "Remove?" column
    display,      \* host: what the main area shows
    seen,         \* host: the configurations read by the evaluations of the
                  \* sampling pass under way
    before        \* host: the session list as the table section found it

fieldVars == <<unit, arg_charges, arg_x, arg_y, ret>>
gridVars == <<fn, charges, x_range, y_range, grid_density, X, Y, Ex, Ey, i, j,
              markers, writes, pc>>

hostVars == <<in_session, plot_range, button, inputs, marks, display, seen,
              before>>

vars == <<fieldVars, gridVars, hostVars>>

\* ----------------------------------------------------- get_electric_field

\* epsilon = 1e-6 = 10^(-EpsExp)
EpsExp == 6

\* r_squared < epsilon**2 for r_squared = a/b units^2:
\* a * 10^(2*EpsExp) < b * 10^(2*unit), without leaving the integers TLC has
LessThanEpsSquared(r_squared) ==
    LET a == r_squared[1]
        b == r_squared[2]
    IN  IF unit >= EpsExp
        THEN a < b * Pow10(unit - EpsExp) * Pow10(unit - EpsExp)
        ELSE a <= ((b - 1) \div Pow10(EpsExp - unit)) \div Pow10(EpsExp - unit)

\* mutant: the singularity test left out
SkipEpsilon_Never(r_squared) == FALSE

\* secondTry.py: if r_squared < epsilon**2: continue
SkipEpsilon(r_squared) == LessThanEpsSquared(r_squared)

\* first try.py: if r_squared == 0: continue
SkipZero(r_squared) == r_squared = Zero

\* mutant: the accumulators start at 1 instead of 0
NoField_Ones ==
    [Ex |-> [s \in {1} |-> Rat(1, 1)], Ey |-> [s \in {1} |-> Rat(1, 1)],
     raised |-> FALSE]

NoField == [Ex |-> RealZero, Ey |-> RealZero, raised |-> FALSE]

\* mutant: Ex = ... and Ey = ... in place of += (the last charge wins)
Accumulate_Overwrite(acc, c, x, y, skip) ==
    LET q == c[1]
        dx == RSub(x, c[2])
        dy == RSub(y, c[3])
        r_squared == RAdd(RMul(dx, dx), RMul(dy, dy))
    IN  IF acc.raised \/ skip THEN acc
        ELSE IF r_squared = Zero THEN [acc EXCEPT !.raised = TRUE]
        ELSE LET r == Sqrt(r_squared)
                 E == RDiv(q, r_squared)
             IN  [Ex |-> AddSurd([s \in {} |-> Rat(0, 1)],
                                 RMulSurd(E, RDivSurd(dx, r))),
                  Ey |-> AddSurd([s \in {} |-> Rat(0, 1)],
                                 RMulSurd(E, RDivSurd(dy, r))),
                  raised |-> FALSE]

\* mutant: the displacement taken from the point to the charge
\* (dx = qx - x, dy = qy - y)
Accumulate_Flipped(acc, c, x, y, skip) ==
    LET q == c[1]
        dx == RSub(c[2], x)
        dy == RSub(c[3], y)
        r_squared == RAdd(RMul(dx, dx), RMul(dy, dy))
    IN  IF acc.raised \/ skip THEN acc
        ELSE IF r_squared = Zero THEN [acc EXCEPT !.raised = TRUE]
        ELSE LET r == Sqrt(r_squared)
                 E == RDiv(q, r_squared)
             IN  [Ex |-> AddSurd(acc.Ex, RMulSurd(E, RDivSurd(dx, r))),
                  Ey |-> AddSurd(acc.Ey, RMulSurd(E, RDivSurd(dy, r))),
                  raised |-> FALSE]

\* one pass of the loop body for the charge c = <<q, qx, qy>>; skip is the
\* outcome of the variant's test.  A division by zero raises and ends the call.
Accumulate(acc, c, x, y, skip) ==
    LET q == c[1]
        dx == RSub(x, c[2])
        dy == RSub(y, c[3])
        r_squared == RAdd(RMul(dx, dx), RMul(dy, dy))
    IN  IF acc.raised \/ skip THEN acc
        ELSE IF r_squared = Zero THEN [acc EXCEPT !.raised = TRUE]
        ELSE LET r == Sqrt(r_squared)
                 E == RDiv(q, r_squared)
             IN  [Ex |-> AddSurd(acc.Ex, RMulSurd(E, RDivSurd(dx, r))),
                  Ey |-> AddSurd(acc.Ey, RMulSurd(E, RDivSurd(dy, r))),
                  raised |-> FALSE]

RSquared(c, x, y) ==
    LET dx == RSub(x, c[2])
        dy == RSub(y, c[3])
    IN  RAdd(RMul(dx, dx), RMul(dy, dy))

RECURSIVE LoopEpsilon(_, _, _, _, _)
LoopEpsilon(cs, x, y, n, acc) ==
    IF n > Len(cs) THEN acc
    ELSE LoopEpsilon(cs, x, y, n + 1,
             Accumulate(acc, cs[n], x, y,
                        SkipEpsilon(RSquared(cs[n], x, y))))

RECURSIVE LoopZero(_, _, _, _, _)
LoopZero(cs, x, y, n, acc) ==
    IF n > Len(cs) THEN acc
    ELSE LoopZero(cs, x, y, n + 1,
             Accumulate(acc, cs[n], x, y,
                        SkipZero(RSquared(cs[n], x, y))))

\* secondTry.py get_electric_field (epsilon-ball skip)
get_electric_field(cs, x, y) == LoopEpsilon(cs, x, y, 1, NoField)

\* first try.py get_electric_field (exact-zero skip)
get_electric_field_first(cs, x, y) == LoopZero(cs, x, y, 1, NoField)

\* ------------------------------------------ inputs of the field evaluator

MaxLen == 2

Q(n, d, xn, yn) == <<Rat(n, d), RInt(xn), RInt(yn)>>

FieldCharges ==
    { Q(1, 1, -2, 0), Q(-1, 1, 2, 0), Q(1, 1, 0, 0), Q(2, 1, 0, 1),
      Q(-1, 1, 0, -1), Q(0, 1, 1, 1), Q(1, 2, 1, 0), Q(-3, 2, -1, 2) }

FieldPoints ==
    { <<RInt(a), RInt(b)>> : a \in {-2, 0, 1, 2}, b \in {0, 1} }
        \cup { <<RInt(10), RInt(0)>> }

\* metres (10^0) and tenths of a micrometre (10^(-7), below epsilon)
Units == {0, 7}

SeqsUpTo(S, n) == UNION { [1..k -> S] : k \in 0..n }

NoRet == [fn |-> "none", val |-> NoField]

\* an array not yet allocated
NoArray == [shape |-> <<0, 0>>, a |-> [n \in {} |-> RealZero]]

\* the renderer's frame while no renderer runs
GridUnused ==
    /\ fn = "none"
    /\ charges = <<>>
    /\ x_range = <<Zero, Zero>>
    /\ y_range = <<Zero, Zero>>
    /\ grid_density = 0
    /\ X = NoArray /\ Y = NoArray /\ Ex = NoArray /\ Ey = NoArray
    /\ i = 0 /\ j = 0
    /\ markers = <<>>
    /\ writes = [n \in {} |-> 0]
    /\ pc = "none"

HostUnused ==
    /\ in_session = FALSE
    /\ plot_range = 0
    /\ button = FALSE
    /\ inputs = <<Zero, Zero, Zero>>
    /\ marks = {}
    /\ display = [kind |-> "none"]
    /\ seen = {}
    /\ before = <<>>

FieldUnused ==
    /\ arg_charges = <<>>
    /\ arg_x = Zero
    /\ arg_y = Zero
    /\ ret = NoRet

InitField ==
    /\ unit \in Units
    /\ arg_charges \in SeqsUpTo(FieldCharges, MaxLen)
    /\ \E p \in FieldPoints : arg_x = p[1] /\ arg_y = p[2]
    /\ ret = NoRet
    /\ GridUnused
    /\ HostUnused

CallSecondTry ==
    /\ ret' = [fn |-> "secondTry",
               val |-> get_electric_field(arg_charges, arg_x, arg_y)]
    /\ UNCHANGED <<unit, arg_charges, arg_x, arg_y, gridVars, hostVars>>

CallFirstTry ==
    /\ ret' = [fn |-> "firstTry",
               val |-> get_electric_field_first(arg_charges, arg_x, arg_y)]
    /\ UNCHANGED <<unit, arg_charges, arg_x, arg_y, gridVars, hostVars>>

NextField == CallSecondTry \/ CallFirstTry

SpecField == InitField /\ [][NextField]_vars

\* ------------------------------------------------- claims on the evaluator

Called == ret.fn # "none"

Coincident(c, x, y) == c[2] = x /\ c[3] = y

\* the field of the single charge c at a point that does not coincide with it
Contribution(c, x, y) == Accumulate(NoField, c, x, y, FALSE)

\* the component-wise sum of the contributions of the charges of cs
RECURSIVE FieldSum(_, _, _)
FieldSum(cs, x, y) ==
    IF cs = <<>> THEN NoField
    ELSE LET rest == FieldSum(SubSeq(cs, 1, Len(cs) - 1), x, y)
             last == Contribution(cs[Len(cs)], x, y)
         IN  [Ex |-> RealAdd(rest.Ex, last.Ex),
              Ey |-> RealAdd(rest.Ey, last.Ey),
              raised |-> FALSE]

NonCoincident(cs, x, y) == SelectSeq(cs, LAMBDA c : ~Coincident(c, x, y))

OutsideEpsilon(cs, x, y) ==
    SelectSeq(cs, LAMBDA c : ~LessThanEpsSquared(RSquared(c, x, y)))

SoleChargeAtOrigin ==
    /\ arg_charges = <<Q(1, 1, 0, 0)>>
    /\ arg_x = Zero
    /\ arg_y = Zero

\* C1 as stated: in both variants a call never raises (no division by zero),
\* and what it returns is the sum of the contributions of exactly the charges
\* that do not coincide with the query point; evaluate([(1,0,0)], (0,0)) is
\* (0, 0).
C1_AsStated ==
    Called =>
        /\ ~ret.val.raised
        /\ ret.val = FieldSum(NonCoincident(arg_charges, arg_x, arg_y),
                              arg_x, arg_y)
        /\ SoleChargeAtOrigin => ret.val = NoField

\* C1 (amended): in both variants a call never raises (no division by zero)
\* and a charge at the query point contributes nothing.  The exact-zero
\* variant returns the sum of the contributions of the charges that do not
\* coincide with the point; the epsilon-ball variant also skips every charge
\* whose squared distance to the point is below epsilon^2 and returns the sum
\* of the contributions of the others.  evaluate([(1,0,0)], (0,0)) is (0, 0)
\* in both.
C1_SingularitySafety ==
    Called =>
        /\ ~ret.val.raised
        /\ ret.fn = "firstTry" =>
              ret.val = FieldSum(NonCoincident(arg_charges, arg_x, arg_y),
                                 arg_x, arg_y)
        /\ ret.fn = "secondTry" =>
              /\ ret.val = FieldSum(OutsideEpsilon(arg_charges, arg_x, arg_y),
                                    arg_x, arg_y)
              /\ ret.val = get_electric_field(
                               NonCoincident(arg_charges, arg_x, arg_y),
                               arg_x, arg_y)
        /\ SoleChargeAtOrigin => ret.val = NoField

\* a call with a charge at the query point and another elsewhere has returned
C1_Witness ==
    /\ Called
    /\ \E n \in DOMAIN arg_charges : Coincident(arg_charges[n], arg_x, arg_y)
    /\ \E n \in DOMAIN arg_charges :
          /\ ~LessThanEpsSquared(RSquared(arg_charges[n], arg_x, arg_y))
          /\ arg_charges[n][1] # Zero
    /\ ret.val # NoField

FieldOf(f, cs, x, y) ==
    IF f = "secondTry" THEN get_electric_field(cs, x, y)
    ELSE get_electric_field_first(cs, x, y)

\* C2: for two charges A, B and a point that coincides with neither, the field
\* of [A, B] is, component by component, the field of [A] plus the field of
\* [B] (both variants).
C2_Superposition ==
    (/\ Called
     /\ Len(arg_charges) = 2
     /\ ~Coincident(arg_charges[1], arg_x, arg_y)
     /\ ~Coincident(arg_charges[2], arg_x, arg_y))
    => LET fA == FieldOf(ret.fn, <<arg_charges[1]>>, arg_x, arg_y)
           fB == FieldOf(ret.fn, <<arg_charges[2]>>, arg_x, arg_y)
       IN  /\ ~ret.val.raised
           /\ ret.val.Ex = RealAdd(fA.Ex, fB.Ex)
           /\ ret.val.Ey = RealAdd(fA.Ey, fB.Ey)

\* two charges, both contributing a non-zero field at a point off both
C2_Witness ==
    /\ Called
    /\ Len(arg_charges) = 2
    /\ ~Coincident(arg_charges[1], arg_x, arg_y)
    /\ ~Coincident(arg_charges[2], arg_x, arg_y)
    /\ FieldOf(ret.fn, <<arg_charges[1]>>, arg_x, arg_y) # NoField
    /\ FieldOf(ret.fn, <<arg_charges[2]>>, arg_x, arg_y) # NoField
    /\ ret.val # FieldOf(ret.fn, <<arg_charges[1]>>, arg_x, arg_y)

DipoleAtOrigin ==
    /\ Called
    /\ unit = 0
    /\ arg_charges = <<Q(1, 1, -2, 0), Q(-1, 1, 2, 0)>>
    /\ arg_x = Zero
    /\ arg_y = Zero

\* C3 as stated: the dipole [(1,-2,0), (-1,2,0)] evaluated at (0,0) gives
\* Ex = -0.5 and Ey = 0.
C3_AsStated ==
    DipoleAtOrigin =>
        /\ ret.val.Ex = RealOf(Rat(-1, 2))
        /\ ret.val.Ey = RealZero

\* C3 (amended): the dipole [(1,-2,0), (-1,2,0)] evaluated at (0,0) gives
\* Ex = +0.5 and Ey = 0 (both variants): the field points from the positive
\* charge towards the negative one.
C3_Dipole ==
    DipoleAtOrigin =>
        /\ ~ret.val.raised
        /\ ret.val.Ex = RealOf(Rat(1, 2))
        /\ ret.val.Ey = RealZero

C3_Witness == DipoleAtOrigin /\ ret.fn = "secondTry"

\* ------------------------------------- create_plot / plot_electric_field

\* mutant: the stop value left out (endpoint=False with the same step)
Linspace_Short(start, stop, num) ==
    [k \in 0..(num - 2) |->
        RAdd(start, RMul(RInt(k), RDiv(RSub(stop, start), RInt(num - 1))))]

\* np.linspace(start, stop, num), num >= 2: num evenly spaced values, both
\* endpoints included, indexed from 0
Linspace(start, stop, num) ==
    [k \in 0..(num - 1) |->
        RAdd(start, RMul(RInt(k), RDiv(RSub(stop, start), RInt(num - 1))))]

Nodes(shape) == (0..(shape[1] - 1)) \X (0..(shape[2] - 1))

Size(v) == Cardinality(DOMAIN v)

\* np.meshgrid(x, y): two arrays of shape (len(y), len(x)),
\* X[i, j] = x[j] and Y[i, j] = y[i]
Meshgrid(x, y) ==
    LET shape == <<Size(y), Size(x)>>
    IN  [X |-> [shape |-> shape, a |-> [n \in Nodes(shape) |-> x[n[2]]]],
         Y |-> [shape |-> shape, a |-> [n \in Nodes(shape) |-> y[n[1]]]]]

\* np.zeros(shape)
Zeros(shape) == [shape |-> shape, a |-> [n \in Nodes(shape) |-> RealZero]]

\* the get_electric_field the renderer fn calls
FieldFor(f, cs, x, y) ==
    IF f = "create_plot" THEN get_electric_field(cs, x, y)
    ELSE get_electric_field_first(cs, x, y)

\* create_plot: markersize=max(6, min(20, abs(q) * 5))
MarkerMin == 6
MarkerMax == 20
MarkerScale == 5
markersize(q) ==
    RMax(RInt(MarkerMin), RMin(RInt(MarkerMax), RMul(RAbs(q), RInt(MarkerScale))))

\* plot_electric_field: markersize=abs(q)*10
MarkerScaleFirst == 10
markersize_first(q) == RMul(RAbs(q), RInt(MarkerScaleFirst))

\* color = 'red' if q > 0 else 'blue'
color(q) == IF RLt(Zero, q) THEN "red" ELSE "blue"

Marker(f, c) ==
    [x |-> c[2], y |-> c[3], color |-> color(c[1]),
     markersize |-> IF f = "create_plot" THEN markersize(c[1])
                    ELSE markersize_first(c[1])]

\* ---------------------------------------------------- inputs of the renderer

MaxDensity == 3

GridCharges == { Q(1, 1, -1, 0), Q(-3, 1, 1, 1), Q(0, 1, 0, 0), Q(1, 2, 0, -1) }

GridRanges == { <<RInt(-1), RInt(1)>>, <<RInt(-2), RInt(1)>> }

InitGrid ==
    /\ unit = 0
    /\ FieldUnused
    /\ HostUnused
    /\ fn \in {"create_plot", "plot_electric_field"}
    /\ charges \in SeqsUpTo(GridCharges, MaxLen)
    /\ x_range \in GridRanges
    /\ y_range \in GridRanges
    /\ grid_density \in 2..MaxDensity
    /\ X = NoArray /\ Y = NoArray /\ Ex = NoArray /\ Ey = NoArray
    /\ i = 0 /\ j = 0
    /\ markers = <<>>
    /\ writes = [n \in {} |-> 0]
    /\ pc = "entry"

\* x, y = np.linspace(...); X, Y = np.meshgrid(x, y); Ex, Ey = np.zeros(...)
Setup ==
    /\ pc = "entry"
    /\ LET x == Linspace(x_range[1], x_range[2], grid_density)
           y == Linspace(y_range[1], y_range[2], grid_density)
           m == Meshgrid(x, y)
       IN  /\ X' = m.X
           /\ Y' = m.Y
           /\ Ex' = Zeros(m.X.shape)
           /\ Ey' = Zeros(m.Y.shape)
           /\ writes' = [n \in Nodes(m.X.shape) |-> 0]
    /\ i' = 0
    /\ j' = 0
    /\ pc' = "loop"
    /\ UNCHANGED <<fieldVars, hostVars, fn, charges, x_range, y_range, grid_density,
                   markers>>

\* for i in range(X.shape[0]): for j in range(Y.shape[1]):
\*     Ex[i, j], Ey[i, j] = get_electric_field(charges, X[i, j], Y[i, j])
SampleNode ==
    /\ pc = "loop"
    /\ i < X.shape[1]
    /\ j < Y.shape[2]
    /\ LET f == FieldFor(fn, charges, X.a[<<i, j>>], Y.a[<<i, j>>])
       IN  IF f.raised
           THEN /\ pc' = "raised"
                /\ UNCHANGED <<Ex, Ey, writes, i, j>>
           ELSE /\ Ex' = [Ex EXCEPT !.a[<<i, j>>] = f.Ex]
                /\ Ey' = [Ey EXCEPT !.a[<<i, j>>] = f.Ey]
                /\ writes' = [writes EXCEPT ![<<i, j>>] = @ + 1]
                /\ IF j + 1 < Y.shape[2]
                   THEN i' = i /\ j' = j + 1
                   ELSE i' = i + 1 /\ j' = 0
                /\ pc' = pc
    /\ UNCHANGED <<fieldVars, hostVars, fn, charges, x_range, y_range, grid_density,
                   X, Y, markers>>

\* for q, qx, qy in charges: plot(qx, qy, 'o', markersize=..., color=color)
PlotCharges ==
    /\ pc = "loop"
    /\ i >= X.shape[1] \/ Y.shape[2] = 0
    /\ markers' = [k \in DOMAIN charges |-> Marker(fn, charges[k])]
    /\ pc' = "done"
    /\ UNCHANGED <<fieldVars, hostVars, fn, charges, x_range, y_range, grid_density,
                   X, Y, Ex, Ey, i, j, writes>>

NextGrid == Setup \/ SampleNode \/ PlotCharges

SpecGrid == InitGrid /\ [][NextGrid]_vars

\* ------------------------------------------------ the host, secondTry.py

\* st.sidebar.slider("Grid Density", 10, 50, 25) and ("Plot Range", 1, 20, 10)
DefaultDensity == 25
DefaultRange == 10
SliderDensities == {10, DefaultDensity}
SliderRanges == {1, DefaultRange}

\* st.session_state.charges = [[1.0, -2.0, 0.0], [-1.0, 2.0, 0.0]]
Dipole == <<Q(1, 1, -2, 0), Q(-1, 1, 2, 0)>>

\* what the user types into the number inputs before clicking Add Charge
AddableCharges == { Q(1, 1, -2, 0), Q(1, 1, 0, 0) }

\* the session list never grows beyond this
MaxCharges == 3

\* the figure create_plot returns, kept as what it was computed from: the
\* configurations its evaluations read, the mesh and the markers
Figure(configs, xr, yr, density, ms) ==
    [kind |-> "figure", configs |-> configs, x_range |-> xr, y_range |-> yr,
     grid_density |-> density, markers |-> ms]

\* st.warning("No charges to display. ...")
Warning == [kind |-> "warning"]
Nothing == [kind |-> "none"]

InitHost ==
    /\ unit = 0
    /\ FieldUnused
    /\ fn = "create_plot"
    /\ charges = <<>>
    /\ x_range = <<Zero, Zero>>
    /\ y_range = <<Zero, Zero>>
    /\ grid_density = DefaultDensity
    /\ X = NoArray /\ Y = NoArray /\ Ex = NoArray /\ Ey = NoArray
    /\ i = 0 /\ j = 0
    /\ markers = <<>>
    /\ writes = [n \in {} |-> 0]
    /\ pc = "top"
    /\ in_session = FALSE
    /\ plot_range = DefaultRange
    /\ button = FALSE
    /\ inputs = <<RInt(1), Zero, Zero>>
    /\ marks = {}
    /\ display = Nothing
    /\ seen = {}
    /\ before = <<>>

hostFrame == <<unit, fieldVars, fn, X, Y, Ex, Ey, markers, writes>>

\* lines 84-99: the session list is created on the first run only; the
\* sliders and number inputs are read; the ranges follow the Plot Range slider
RunTop ==
    /\ pc = "top"
    /\ in_session' = TRUE
    /\ charges' = IF in_session THEN charges ELSE Dipole
    /\ x_range' = <<RInt(-plot_range), RInt(plot_range)>>
    /\ y_range' = <<RInt(-plot_range), RInt(plot_range)>>
    /\ pc' = "add"
    /\ UNCHANGED <<hostFrame, grid_density, i, j, plot_range, button, inputs,
                   marks, display, seen, before>>

\* lines 101-103: if st.sidebar.button("Add Charge"): append; st.rerun()
AddCharge ==
    /\ pc = "add"
    /\ IF button
       THEN /\ charges' = Append(charges, inputs)
            /\ pc' = "rerun"
       ELSE /\ charges' = charges
            /\ pc' = "render"
    /\ UNCHANGED <<hostFrame, x_range, y_range, grid_density, i, j,
                   in_session, plot_range, button, inputs, marks, display, seen,
                   before>>

\* mutant: the empty-list guard left out
Render_Unguarded ==
    /\ pc = "render"
    /\ i' = 0
    /\ j' = 0
    /\ seen' = {}
    /\ pc' = "plot"
    /\ UNCHANGED <<hostFrame, charges, x_range, y_range, grid_density,
                   in_session, plot_range, button, inputs, marks, display,
                   before>>

\* lines 108-112: if not st.session_state.charges: st.warning(...)
\* else: create_plot(st.session_state.charges, x_range, y_range, grid_density)
Render ==
    /\ pc = "render"
    /\ IF charges = <<>>
       THEN /\ display' = Warning
            /\ pc' = "table"
            /\ UNCHANGED <<i, j, seen, before>>
       ELSE /\ i' = 0
            /\ j' = 0
            /\ seen' = {}
            /\ pc' = "plot"
            /\ UNCHANGED display
    /\ UNCHANGED <<hostFrame, charges, x_range, y_range, grid_density,
                   in_session, plot_range, button, inputs, marks, before>>

\* mutant: the evaluation consumes the list it iterates (charges.pop(0))
HostSampleNode_Consuming ==
    /\ pc = "plot"
    /\ i < grid_density
    /\ seen' = seen \cup {charges}
    /\ charges' = IF Len(charges) > 1 THEN Tail(charges) ELSE charges
    /\ IF j + 1 < grid_density
       THEN i' = i /\ j' = j + 1
       ELSE i' = i + 1 /\ j' = 0
    /\ UNCHANGED <<hostFrame, x_range, y_range, grid_density, pc,
                   in_session, plot_range, button, inputs, marks, display,
                   before>>

\* lines 55-57 inside the host's create_plot call: one evaluation of
\* get_electric_field(charges, X[i, j], Y[i, j]), which reads the list
HostSampleNode ==
    /\ pc = "plot"
    /\ i < grid_density
    /\ seen' = seen \cup {charges}
    /\ IF j + 1 < grid_density
       THEN i' = i /\ j' = j + 1
       ELSE i' = i + 1 /\ j' = 0
    /\ UNCHANGED <<hostFrame, charges, x_range, y_range, grid_density, pc,
                   in_session, plot_range, button, inputs, marks, display,
                   before>>

\* lines 59-77 and 113: the markers are drawn, create_plot returns the
\* figure and st.pyplot shows it
ShowPlot ==
    /\ pc = "plot"
    /\ i >= grid_density
    /\ display' = Figure(seen, x_range, y_range, grid_density,
                         [k \in DOMAIN charges |-> Marker(fn, charges[k])])
    /\ pc' = "table"
    /\ UNCHANGED <<hostFrame, charges, x_range, y_range, grid_density, i, j,
                   in_session, plot_range, button, inputs, marks, seen, before>>

\* the rows 0 .. len-1 whose index is not marked, in order
RECURSIVE KeepUnmarked(_, _, _)
KeepUnmarked(cs, removed, n) ==
    IF n > Len(cs) THEN <<>>
    ELSE IF (n - 1) \in removed THEN KeepUnmarked(cs, removed, n + 1)
    ELSE <<cs[n]>> \o KeepUnmarked(cs, removed, n + 1)

\* mutant: filtering by value (charge not in the marked charges)
RemoveMarked_ByValue(cs, removed) ==
    SelectSeq(cs, LAMBDA c :
        \A n \in removed : n + 1 \in DOMAIN cs => cs[n + 1] # c)

\* [charge for i, charge in enumerate(charges) if i not in indices]
RemoveMarked(cs, removed) == KeepUnmarked(cs, removed, 1)

\* mutant: the list is filtered but st.rerun() is not called
Table_NoRerun ==
    /\ pc = "table"
    /\ before' = charges
    /\ charges' = IF charges # <<>> /\ marks # {}
                  THEN KeepUnmarked(charges, marks, 1) ELSE charges
    /\ pc' = "idle"
    /\ UNCHANGED <<hostFrame, x_range, y_range, grid_density, i, j,
                   in_session, plot_range, button, inputs, marks, display,
                   seen>>

\* lines 116-144: the table of current charges; the marked rows are filtered
\* out and the script reruns
Table ==
    /\ pc = "table"
    /\ before' = charges
    /\ IF charges # <<>> /\ marks # {}
       THEN /\ charges' = RemoveMarked(charges, marks)
            /\ pc' = "rerun"
       ELSE /\ charges' = charges
            /\ pc' = "idle"
    /\ UNCHANGED <<hostFrame, x_range, y_range, grid_density, i, j,
                   in_session, plot_range, button, inputs, marks, display,
                   seen>>

\* st.rerun(): the run ends there and the script starts again from the top;
\* the button reads False, and the data editor (rebuilt from a different
\* list) has no row ticked
Rerun ==
    /\ pc = "rerun"
    /\ button' = FALSE
    /\ marks' = {}
    /\ pc' = "top"
    /\ UNCHANGED <<hostFrame, charges, x_range, y_range, grid_density, i, j,
                   in_session, plot_range, inputs, display, seen, before>>

\* User interactions are taken while no script run is under way; each starts
\* one run of the script from the top.

\* the user fills the number inputs and clicks Add Charge
ClickAdd ==
    /\ pc = "idle"
    /\ Len(charges) < MaxCharges
    /\ \E c \in AddableCharges : inputs' = c
    /\ button' = TRUE
    /\ pc' = "top"
    /\ UNCHANGED <<hostFrame, charges, x_range, y_range, grid_density, i, j,
                   in_session, plot_range, marks, display, seen, before>>

\* the user moves the Grid Density slider
MoveDensity ==
    /\ pc = "idle"
    /\ \E d \in SliderDensities \ {grid_density} : grid_density' = d
    /\ pc' = "top"
    /\ UNCHANGED <<hostFrame, charges, x_range, y_range, i, j, in_session,
                   plot_range, button, inputs, marks, display, seen, before>>

\* the user moves the Plot Range slider
MoveRange ==
    /\ pc = "idle"
    /\ \E r \in SliderRanges \ {plot_range} : plot_range' = r
    /\ pc' = "top"
    /\ UNCHANGED <<hostFrame, charges, x_range, y_range, grid_density, i, j,
                   in_session, button, inputs, marks, display, seen, before>>

\* the user ticks "Remove?" on some rows of the table.  st.sidebar.data_editor
\* is taken to hand back a boolean Remove column, True on the ticked rows, as
\* the CheckboxColumn configuration intends; the column is filled with the
\* strings 'rm_i' at line 122, and what the library does with those is not
\* part of this repository.
TickRemove ==
    /\ pc = "idle"
    /\ charges # <<>>
    /\ \E S \in (SUBSET (0..(Len(charges) - 1))) \ {{}} : marks' = S
    /\ pc' = "top"
    /\ UNCHANGED <<hostFrame, charges, x_range, y_range, grid_density, i, j,
                   in_session, plot_range, button, inputs, display, seen,
                   before>>

NextHost ==
    \/ RunTop \/ AddCharge \/ Render \/ HostSampleNode \/ ShowPlot \/ Table
    \/ Rerun \/ ClickAdd \/ MoveDensity \/ MoveRange \/ TickRemove

SpecHost == InitHost /\ [][NextHost]_vars

\* --------------------------------------------------- claims on the renderer

GridShape == <<grid_density, grid_density>>

\* C4: for every configuration, ranges and density >= 2 the sampling loop
\* leaves Ex and Ey of shape (density, density), and stores into each of the
\* density * density nodes exactly once, from one get_electric_field call.
C4_GridShape ==
    /\ pc # "raised"
    /\ pc \in {"loop", "done"} =>
          /\ Ex.shape = GridShape /\ DOMAIN Ex.a = Nodes(GridShape)
          /\ Ey.shape = GridShape /\ DOMAIN Ey.a = Nodes(GridShape)
          /\ DOMAIN writes = Nodes(GridShape)
          /\ \A n \in DOMAIN writes : writes[n] <= 1
    /\ pc = "done" => \A n \in Nodes(GridShape) : writes[n] = 1

\* a finished pass over a 3 x 3 grid with charges and unequal ranges
C4_Witness ==
    /\ pc = "done"
    /\ grid_density >= 3
    /\ charges # <<>>
    /\ x_range # y_range
    /\ \E n \in DOMAIN Ex.a : Ex.a[n] # RealZero

\* C5: with no charges, sampling over any range with any density >= 2 raises
\* nothing and returns Ex and Ey of shape (density, density) that are zero at
\* every node.
C5_ZeroChargeGrid ==
    charges = <<>> =>
        /\ pc # "raised"
        /\ pc = "done" =>
              /\ Ex.shape = GridShape /\ Ey.shape = GridShape
              /\ \A n \in Nodes(GridShape) :
                    /\ writes[n] = 1
                    /\ Ex.a[n] = RealZero
                    /\ Ey.a[n] = RealZero

C5_Witness ==
    /\ charges = <<>>
    /\ pc = "done"
    /\ grid_density >= 3
    /\ fn = "plot_electric_field"

\* C10 as stated: in both renderers every marker's size lies in the fixed
\* display range [6, 20], grows (weakly) with |q|, and its colour is decided
\* by the sign of q.
C10_AsStated ==
    pc = "done" =>
        \A k \in DOMAIN markers :
            /\ RLe(RInt(MarkerMin), markers[k].markersize)
            /\ RLe(markers[k].markersize, RInt(MarkerMax))
            /\ markers[k].color = (IF charges[k][1][1] > 0 THEN "red" ELSE "blue")
            /\ \A l \in DOMAIN markers :
                  RLe(RAbs(charges[k][1]), RAbs(charges[l][1]))
                      => RLe(markers[k].markersize, markers[l].markersize)

\* ------------------------------------------------------ claims on the host

\* what a render pass over the current store and sliders shows
Rendered ==
    IF charges = <<>> THEN Warning
    ELSE Figure({charges},
                <<RInt(-plot_range), RInt(plot_range)>>,
                <<RInt(-plot_range), RInt(plot_range)>>,
                grid_density,
                [k \in DOMAIN charges |-> Marker("create_plot", charges[k])])

\* C6: whatever was added and removed before, the host never calls create_plot
\* with an empty charge list: a script run that finds the list empty shows the
\* warning instead of a figure, and no figure was ever computed from an empty
\* list.
C6_EmptyConfiguration ==
    /\ pc = "plot" => charges # <<>>
    /\ (pc \in {"table", "idle"} /\ charges = <<>>) => display = Warning
    /\ display.kind = "figure" => <<>> \notin display.configs

\* every charge was removed and the run that followed has ended
C6_Witness ==
    /\ pc = "idle"
    /\ in_session
    /\ charges = <<>>
    /\ display = Warning

\* C7: every append and every removal ends in st.rerun(), and the render pass
\* of a run shows what is computed from the list as it then is; so whenever no
\* run is under way, the main area shows the figure (or, for an empty list,
\* the warning) of the current charge store and slider values.
C7_RecomputeOnMutation ==
    /\ [](pc \in {"table", "idle"} => display = Rendered)
    /\ [][(in_session /\ charges' # charges) => pc' = "rerun"]_vars

\* quiescent after the list was changed, showing a figure of the changed list
C7_Witness ==
    /\ pc = "idle"
    /\ charges \notin {<<>>, Dipole}
    /\ display.kind = "figure"
    /\ display.configs = {charges}

\* C8: no step of create_plot or get_electric_field changes the charge list,
\* and no append or removal happens while a create_plot call is under way: all
\* evaluations of one sampling pass read the same configuration, the one the
\* figure is shown for.
C8_ConsistentSnapshot ==
    /\ [][pc = "plot" => charges' = charges]_vars
    /\ [](pc = "plot" => seen \subseteq {charges})
    /\ [](display.kind = "figure" => Cardinality(display.configs) = 1)

\* in the middle of a sampling pass over a list that was changed before
C8_Witness ==
    /\ pc = "plot"
    /\ i > 0
    /\ j > 0
    /\ seen = {charges}
    /\ charges # Dipole

\* the rows of cs that are not marked, by ascending index
Unmarked(cs, removed) == (0..(Len(cs) - 1)) \ removed
KthUnmarked(cs, removed, k) ==
    CHOOSE n \in Unmarked(cs, removed) :
        Cardinality({m \in Unmarked(cs, removed) : m < n}) = k - 1
KeptByIndex(cs, removed) ==
    [k \in 1..Cardinality(Unmarked(cs, removed)) |->
        cs[KthUnmarked(cs, removed, k) + 1]]

Removing == pc = "rerun" /\ ~button

====
